---- MODULE Spec2Model ----
(***************************************************************************)
(* Model of generate-front-end (src/index.js, the ES-module program of     *)
(* lines 82-239): run() resolves seven parameters, clones the template,    *)
(* rewrites package.json, index.html, home.vue and README.md, resolves the *)
(* LICENSE text and finalises the repository.                              *)
(*                                                                         *)
(* Texts are sequences of lexemes.  A lexeme is a fixed piece of text: a   *)
(* single character ("a", "=", "$", "\n", the double quote) or a word that *)
(* a pattern of the program names ("MIT", "Requirements", "<year>").  The  *)
(* alphabets are chosen so that no pattern can match across a lexeme       *)
(* boundary except where its lexemes meet, so matching on lexemes is       *)
(* matching on the characters.  The empty string is <<>>.                  *)
(***************************************************************************)
EXTENDS Integers, Sequences, FiniteSets, TLC

(***************************************************************************)
(* Bounds of the model.                                                    *)
(***************************************************************************)
MaxVerLen == 6
MaxEntries == 2
MaxNameLen == 2

(***************************************************************************)
(* JavaScript regular expressions, as the expressions of the program use   *)
(* them.  A pattern is a sequence of items: a literal, a greedy + or * of  *)
(* a character class (capturing each iteration in a group when the class   *)
(* is parenthesised), and the opening and closing of a capture group.  The *)
(* matcher backtracks in priority order: a repetition takes the longest    *)
(* run with which the rest of the pattern still matches.                   *)
(***************************************************************************)
Lit(s) == [t |-> "lit", s |-> s]
Plus(cls) == [t |-> "rep", min |-> 1, cls |-> cls, grp |-> 0]
Star(cls) == [t |-> "rep", min |-> 0, cls |-> cls, grp |-> 0]
PlusGrp(n, cls) == [t |-> "rep", min |-> 1, cls |-> cls, grp |-> n]
Open(n) == [t |-> "open", n |-> n]
Close(n) == [t |-> "close", n |-> n]

\* Character classes: [set] and [^set].
Cls(set) == [neg |-> FALSE, set |-> set]
NotCls(set) == [neg |-> TRUE, set |-> set]
InCls(cls, x) == (x \in cls.set) # cls.neg

\* Lexemes matched by \s and line terminators (not matched by .).
WhiteSpace == {" ", "\n"}
LineTerminators == {"\n"}
Digits == {"0", "1", "2", "3", "4", "5", "6", "7", "8", "9"}
AnyChar == NotCls({})
Dot == NotCls(LineTerminators)
Space == Cls(WhiteSpace)

\* The backtick character (the one lexeme not written as itself).
BT == "BACKTICK"

\* No group has participated in the match.
NoCaps == [n \in 1..2 |-> <<0, 0>>]

Min(S) == CHOOSE x \in S : \A y \in S : x <= y
Max(S) == CHOOSE x \in S : \A y \in S : x >= y

\* The end of the longest run of lexemes of cls that starts at position i.
RunEnd(cls, s, i) ==
  Min({j \in i..(Len(s) + 1) : j = Len(s) + 1 \/ ~InCls(cls, s[j])})

NoMatch == [ok |-> FALSE, e |-> 0, c |-> NoCaps]

RECURSIVE Match(_, _, _, _, _)
\* The items re[k..] matched against s from position i: whether they match,
\* where the match ends and what the groups captured.
Match(re, k, s, i, caps) ==
  IF k > Len(re) THEN [ok |-> TRUE, e |-> i, c |-> caps]
  ELSE LET it == re[k] IN
    CASE it.t = "lit" ->
           IF i + Len(it.s) - 1 <= Len(s) /\ SubSeq(s, i, i + Len(it.s) - 1) = it.s
           THEN Match(re, k + 1, s, i + Len(it.s), caps) ELSE NoMatch
      [] it.t = "open" -> Match(re, k + 1, s, i, [caps EXCEPT ![it.n] = <<i, i>>])
      [] it.t = "close" ->
           Match(re, k + 1, s, i, [caps EXCEPT ![it.n] = <<caps[it.n][1], i>>])
      [] it.t = "rep" ->
           LET CapsAt(e) ==
                 IF it.grp > 0 /\ e > i THEN [caps EXCEPT ![it.grp] = <<e - 1, e>>]
                 ELSE caps
               good == {e \in (i + it.min)..RunEnd(it.cls, s, i) :
                          Match(re, k + 1, s, e, CapsAt(e)).ok}
           IN  IF good = {} THEN NoMatch
               ELSE Match(re, k + 1, s, Max(good), CapsAt(Max(good)))

RECURSIVE FirstMatchFrom(_, _, _)
\* RegExp.prototype.exec without the g flag: the match at the leftmost
\* position from i on at which re matches s, or none.
FirstMatchFrom(re, s, i) ==
  IF i > Len(s) + 1 THEN [ok |-> FALSE, b |-> 0, e |-> 0, c |-> NoCaps]
  ELSE LET m == Match(re, 1, s, i, NoCaps)
       IN  IF m.ok THEN [ok |-> TRUE, b |-> i, e |-> m.e, c |-> m.c]
           ELSE FirstMatchFrom(re, s, i + 1)
FirstMatch(re, s) == FirstMatchFrom(re, s, 1)
HasMatch(re, s) == FirstMatch(re, s).ok

RECURSIVE Expand(_, _, _, _, _)
\* GetSubstitution: the replacement string repl from lexeme k on, with its $
\* patterns expanded for match m of a pattern with ng capture groups.
Expand(repl, k, s, m, ng) ==
  IF k > Len(repl) THEN <<>>
  ELSE IF repl[k] = "$" /\ k < Len(repl)
  THEN LET x == repl[k + 1]
       IN  CASE x = "$" -> <<"$">> \o Expand(repl, k + 2, s, m, ng)
             [] x = "&" -> SubSeq(s, m.b, m.e - 1) \o Expand(repl, k + 2, s, m, ng)
             [] x = BT -> SubSeq(s, 1, m.b - 1) \o Expand(repl, k + 2, s, m, ng)
             [] x = "'" -> SubSeq(s, m.e, Len(s)) \o Expand(repl, k + 2, s, m, ng)
             [] x = "1" /\ ng >= 1 ->
                  SubSeq(s, m.c[1][1], m.c[1][2] - 1) \o Expand(repl, k + 2, s, m, ng)
             [] x = "2" /\ ng >= 2 ->
                  SubSeq(s, m.c[2][1], m.c[2][2] - 1) \o Expand(repl, k + 2, s, m, ng)
             [] OTHER -> <<"$">> \o Expand(repl, k + 1, s, m, ng)
  ELSE <<repl[k]>> \o Expand(repl, k + 1, s, m, ng)

\* String.prototype.replace(pattern, replacement string): the first match of
\* the pattern replaced, the text unchanged when there is none.
Replace(s, re, ng, repl) ==
  LET m == FirstMatch(re, s)
  IN  IF ~m.ok THEN s
      ELSE SubSeq(s, 1, m.b - 1) \o Expand(repl, 1, s, m, ng) \o SubSeq(s, m.e, Len(s))

(***************************************************************************)
(* Strings of the program.                                                 *)
(***************************************************************************)
Q == "\""
NL == "\n"

\* String.prototype.length: the number of characters of the lexemes.
LexLen(x) ==
  CASE x = "MIT" -> 3
    [] x = "Requirements" -> 12
    [] x = "Installation" -> 12
    [] x = "Deployment" -> 10
    [] x = "Usage" -> 5
    [] OTHER -> 1
RECURSIVE StrLen(_)
StrLen(s) == IF s = <<>> THEN 0 ELSE LexLen(Head(s)) + StrLen(Tail(s))

\* String.prototype.repeat
RECURSIVE Repeat(_, _)
Repeat(x, n) == IF n <= 0 THEN <<>> ELSE <<x>> \o Repeat(x, n - 1)

\* String.prototype.includes
Includes(s, sub) == HasMatch(<<Lit(sub)>>, s)

\* String.prototype.toLowerCase
LowerChar(x) ==
  CASE x = "A" -> "a"
    [] x = "B" -> "b"
    [] x = "MIT" -> "mit"
    [] OTHER -> x
ToLowerCase(s) == [k \in 1..Len(s) |-> LowerChar(s[k])]

Letters == {"a", "b", "A", "B", "d", "n", "o", "l", "r", "p", "u", "x", "y", "mit", "MIT"}

\* slugify(string, { strict: true }): characters of the charMap are spelled
\* out, the replacement character becomes a space, characters that are not
\* allowed are removed (in strict mode all but letters, digits and spaces),
\* the result is trimmed and each run of spaces becomes the replacement.
CharMap(x) ==
  CASE x = "$" -> <<"d", "o", "l", "l", "a", "r">>
    [] x = "&" -> <<"a", "n", "d">>
    [] x = "-" -> <<" ">>
    [] OTHER -> <<x>>
StrictAllowed == Letters \cup Digits \cup WhiteSpace
RECURSIVE SlugChars(_)
SlugChars(s) ==
  IF s = <<>> THEN <<>>
  ELSE SelectSeq(CharMap(Head(s)), LAMBDA x : x \in StrictAllowed) \o SlugChars(Tail(s))
RECURSIVE TrimStart(_)
TrimStart(s) == IF s # <<>> /\ Head(s) \in WhiteSpace THEN TrimStart(Tail(s)) ELSE s
RECURSIVE TrimEnd(_)
TrimEnd(s) ==
  IF s # <<>> /\ s[Len(s)] \in WhiteSpace THEN TrimEnd(SubSeq(s, 1, Len(s) - 1)) ELSE s
RECURSIVE Hyphenate(_)
Hyphenate(s) ==
  IF s = <<>> THEN <<>>
  ELSE IF Head(s) \in WhiteSpace
  THEN <<"-">> \o Hyphenate(TrimStart(s))
  ELSE <<Head(s)>> \o Hyphenate(Tail(s))
Slugify(s) == Hyphenate(TrimEnd(TrimStart(SlugChars(s))))

(***************************************************************************)
(* Parameter resolution (run, lines 133-139).                              *)
(***************************************************************************)
Params == <<"appName", "packageName", "author", "description", "version", "license", "repoURL">>
ParamNames == {Params[k] : k \in 1..Len(Params)}

\* Nothing is truthy: every parameter is prompted for.
TruthyNever(v) == FALSE
\* A JavaScript string is truthy unless it is empty (an absent flag is
\* undefined, which is falsy too).
Truthy(v) == v # <<>>

\* A validator that accepts everything.
ValidateAnything(val) == TRUE
\* validate: val => val !== (the empty string)
ValidateAppName(val) == val # <<>>

\* /[0-9]+\.[0-9]+\.[0-9]+/
VersionRe ==
  <<Plus(Cls(Digits)), Lit(<<".">>), Plus(Cls(Digits)), Lit(<<".">>), Plus(Cls(Digits))>>
\* validate: v => v.match(/[0-9]+\.[0-9]+\.[0-9]+/) !== null
ValidateVersion(v) == HasMatch(VersionRe, v)

Validate(p, v) ==
  CASE p = "appName" -> ValidateAppName(v)
    [] p = "version" -> ValidateVersion(v)
    [] OTHER -> TRUE

\* The default of each prompt; prompts without one default to the empty string.
Default(p, resolved) ==
  CASE p = "packageName" -> Slugify(ToLowerCase(resolved["appName"]))
    [] p = "version" -> <<"0", ".", "1", ".", "0">>
    [] p = "license" -> <<"MIT">>
    [] OTHER -> <<>>

\* input(): the answer to a prompt is what was typed, or the default when
\* nothing was typed; the validator sees the answer.
Answer(typed, default) == IF typed # <<>> THEN typed ELSE default

(***************************************************************************)
(* Template rewrite (run, lines 162-203).                                  *)
(***************************************************************************)
\* /"<key>": "[^"]+"/
KeyRe(key) == <<Lit(<<Q, key, Q, ": ", Q>>), Plus(NotCls({Q})), Lit(<<Q>>)>>
\* the template literal "<key>": "${value}"
KeyRepl(key, value) == <<Q, key, Q, ": ", Q>> \o value \o <<Q>>
ReplaceKey(text, key, value) == Replace(text, KeyRe(key), 0, KeyRepl(key, value))

\* The six substitutions of package.json, in the order of the code.
ManifestRewrite(packageJson, p) ==
  LET m1 == ReplaceKey(packageJson, "name", p["packageName"])
      m2 == ReplaceKey(m1, "version", p["version"])
      m3 == ReplaceKey(m2, "description", p["description"])
      m4 == ReplaceKey(m3, "author", p["author"])
      m5 == ReplaceKey(m4, "license", p["license"])
  IN  ReplaceKey(m5, "url", p["repoURL"])

\* Lexemes that hold the character <.
LtLexemes == {"<", "<title>", "</title>", "<h1>", "</h1>", "<year>", "<copyright holders>", "<owner>"}
\* /<title>[^<]+<\/title>/ and /<h1>[^<]+<\/h1>/
TagRe(open, close) == <<Lit(<<open>>), Plus(NotCls(LtLexemes)), Lit(<<close>>)>>
IndexRewrite(index, p) ==
  Replace(index, TagRe("<title>", "</title>"), 0, <<"<title>">> \o p["appName"] \o <<"</title>">>)
HomeRewrite(homePage, p) ==
  Replace(homePage, TagRe("<h1>", "</h1>"), 0, <<"<h1>">> \o p["appName"] \o <<"</h1>">>)

\* /.*(\s)+(=+)/m
TitleRe == <<Star(Dot), PlusGrp(1, Space), Open(2), Plus(Cls({"="})), Close(2)>>
\* /(=+\s+)([\s\S]+)(?:Requirements)/
DescriptionRe ==
  <<Open(1), Plus(Cls({"="})), Plus(Space), Close(1), Open(2), Plus(AnyChar), Close(2),
    Lit(<<"Requirements">>)>>
\* /(Installation\s+-+)[\s\S]+manually:/
InstallationRe ==
  <<Open(1), Lit(<<"Installation">>), Plus(Space), Plus(Cls({"-"})), Close(1),
    Plus(AnyChar), Lit(<<"manually:">>)>>
\* /git clone [^BACKTICK]+/, the class being all but the backtick
CloneRe == <<Lit(<<"git clone ">>), Plus(NotCls({BT}))>>
\* /Usage\s+-+[\s\S]+Deployment/
UsageRe ==
  <<Lit(<<"Usage">>), Plus(Space), Plus(Cls({"-"})), Plus(AnyChar), Lit(<<"Deployment">>)>>

\* The six edits of README.md.
EditTitle(readme, p) ==
  Replace(readme, TitleRe, 2,
          p["appName"] \o <<"$", "1">> \o Repeat("=", StrLen(p["appName"])))
EditDescription(readme, p) ==
  Replace(readme, DescriptionRe, 2,
          <<"$", "1">> \o p["description"] \o <<NL, NL, "Requirements">>)
EditInstallation(readme, p) == Replace(readme, InstallationRe, 1, <<"$", "1">>)
EditClone(readme, p) == Replace(readme, CloneRe, 0, <<"git clone ">> \o p["repoURL"])
EditLicense(readme, p) == Replace(readme, <<Lit(<<"MIT">>)>>, 0, p["license"])
EditUsage(readme, p) == Replace(readme, UsageRe, 0, <<"Deployment">>)

\* The k-th edit, in the order of the code.
ReadmeEdit(k, readme, p) ==
  CASE k = 1 -> EditTitle(readme, p)
    [] k = 2 -> EditDescription(readme, p)
    [] k = 3 -> EditInstallation(readme, p)
    [] k = 4 -> EditClone(readme, p)
    [] k = 5 -> EditLicense(readme, p)
    [] k = 6 -> EditUsage(readme, p)
RECURSIVE ReadmeEdits(_, _, _)
\* The first k edits applied in sequence.
ReadmeEdits(k, readme, p) ==
  IF k = 0 THEN readme ELSE ReadmeEdit(k, ReadmeEdits(k - 1, readme, p), p)
ReadmeRewrite(readme, p) == ReadmeEdits(6, readme, p)

(***************************************************************************)
(* License resolution (fetchLicense, lines 114-129; run, lines 205-217).   *)
(***************************************************************************)
\* new Date().getFullYear(), as the string replace() makes of it.
CurrentYear == <<"2", "0", "2", "6">>

\* licenses.find(l => l.licenseId === id): the index of the first entry with
\* that identifier, 0 when there is none.
Find(licenses, id) ==
  LET hits == {k \in 1..Len(licenses) : licenses[k].licenseId = id}
  IN  IF hits = {} THEN 0 ELSE Min(hits)

\* licenseText.replace(<year>, year).replace(<copyright holders>, author)
LicenseContents(licenseText, author) ==
  Replace(Replace(licenseText, <<Lit(<<"<year>">>)>>, 0, CurrentYear),
          <<Lit(<<"<copyright holders>">>)>>, 0, author)

(***************************************************************************)
(* The state of a run.                                                     *)
(***************************************************************************)
VARIABLES
  pc,          \* the statement run() is at
  args,        \* parser.parse_args(): per flag, whether it was given and its value
  params,      \* appName, packageName, ... as resolved so far
  prompted,    \* the parameters input() has prompted for
  files,       \* the output directory: the text of each file that exists
  trace,       \* the subprocesses exec() has spawned, with their exit codes
  warns,       \* the console.warn calls
  licenseText, \* what fetchLicense returned
  outcome,     \* how license resolution ended
  inp,         \* inputs of the rewrite under study
  out,         \* its successive results
  step         \* how many results there are

runVars == <<pc, args, params, prompted, files, trace, warns, licenseText, outcome>>
vars == <<pc, args, params, prompted, files, trace, warns, licenseText, outcome, inp, out, step>>

\* An absent flag and a flag given with a value.
NoFlag == [given |-> FALSE, val |-> <<>>]
Flag(v) == [given |-> TRUE, val |-> v]

\* The command lines considered.
FlagValues(p) ==
  CASE p = "appName" -> {NoFlag, Flag(<<"A", "b">>)}
    [] p = "packageName" -> {NoFlag, Flag(<<"p">>)}
    [] p = "author" -> {NoFlag, Flag(<<"a">>)}
    [] p = "description" -> {NoFlag, Flag(<<"d">>)}
    [] p = "version" -> {NoFlag, Flag(<<"1", ".", "2", ".", "3">>)}
    [] p = "license" -> {NoFlag, Flag(<<"MIT">>), Flag(<<"N">>)}
    [] p = "repoURL" -> {NoFlag, Flag(<<>>), Flag(<<"u">>)}

\* What the user may type at each prompt (nothing, for the default).
Typed(p) ==
  CASE p = "appName" -> {<<>>, <<"!">>, <<"A", " ", "B">>}
    [] p = "version" -> {<<>>, <<"v", "1">>}
    [] OTHER -> {<<>>}

\* The files of the template repository, and the variants of it considered.
Entry(key, value) == <<Q, key, Q, ": ", Q>> \o value \o <<Q>>
PackageJson ==
  <<"{">> \o Entry("name", <<"o">>) \o <<",">> \o Entry("version", <<"1", ".", "0", ".", "0">>)
  \o <<",">> \o Entry("description", <<"d">>) \o <<",">> \o Entry("author", <<"x">>)
  \o <<",">> \o Entry("license", <<"MIT">>)
  \o <<",", Q, "repository", Q, ": ", "{">> \o Entry("url", <<"o">>) \o <<"}", "}">>
IndexHtml == <<"<title>", "o", "</title>">>
HomeVue == <<"<h1>", "o", "</h1>">>
ReadmeMd ==
  <<"o", "r", NL, "=", "=", NL, NL, "d", NL, NL, "Requirements", NL, "-", NL, NL, "n", NL, NL,
    "Installation", NL, "-", NL, NL, "x", " ", "manually:", NL, NL,
    BT, "git clone ", "o", BT, NL, NL, "Usage", NL, "-", NL, NL, "y", NL, NL,
    "Deployment", NL, "-", NL, NL, "y", NL, NL, "License", NL, "-", NL, NL, "MIT", NL>>
TemplateLicense == <<"l">>
FileNames ==
  {".git", ".github", "package-lock.json", "package.json", "index.html", "home.vue",
   "README.md", "LICENSE", "node_modules"}
Template ==
  [f \in FileNames \ {"node_modules"} |->
     CASE f = "package.json" -> PackageJson
       [] f = "index.html" -> IndexHtml
       [] f = "home.vue" -> HomeVue
       [] f = "README.md" -> ReadmeMd
       [] f = "LICENSE" -> TemplateLicense
       [] OTHER -> <<>>]
Remove(fs, name) == [f \in DOMAIN fs \ {name} |-> fs[f]]
Write(fs, name, text) == [f \in DOMAIN fs \cup {name} |-> IF f = name THEN text ELSE fs[f]]
Exists(fs, name) == name \in DOMAIN fs
NoDirectory == [f \in {} |-> <<>>]
\* The template as it is, and one that ships no LICENSE and no lock file.
Templates == {Template, Remove(Remove(Template, "LICENSE"), "package-lock.json")}
\* What may be at the output path before the run: nothing, or a directory.
Preexisting == {NoDirectory, Template}

\* The registry and the documents behind its detail URLs, as fetch() may
\* return them.
Registries ==
  {[status |-> 503, licenses |-> <<>>],
   [status |-> 200, licenses |-> <<>>],
   [status |-> 200, licenses |-> <<[licenseId |-> <<"mit">>, detailsUrl |-> "u1"],
                                   [licenseId |-> <<"MIT">>, detailsUrl |-> "u2"]>>]}
LicenseBodies ==
  {<<"c", " ", "<year>", " ", "<copyright holders>", NL, "p">>,
   <<"c", " ", "<year>", " ", "<copyright holders>", NL, "<year>", " ", "<copyright holders>">>,
   <<"c", " ", "<year>", " ", "<owner>">>}
DetailDocs ==
  {[ok |-> FALSE, licenseText |-> <<>>]} \cup {[ok |-> TRUE, licenseText |-> b] : b \in LicenseBodies}

Cmd(cmd, arg, code) == [cmd |-> cmd, arg |-> arg, code |-> code]

Init ==
  /\ pc = "appName"
  /\ args \in [appName : FlagValues("appName"), packageName : FlagValues("packageName"),
                author : FlagValues("author"), description : FlagValues("description"),
                version : FlagValues("version"), license : FlagValues("license"),
                repoURL : FlagValues("repoURL")]
  /\ params = [p \in ParamNames |-> <<>>]
  /\ prompted = {}
  /\ files \in Preexisting
  /\ trace = <<>>
  /\ warns = <<>>
  /\ licenseText = <<>>
  /\ outcome = "none"
  /\ inp = <<>>
  /\ out = <<>>
  /\ step = 0

harnessIdle == UNCHANGED <<inp, out, step>>

\* The statement after the resolution of Params[k].
AfterParam(k) == IF k < Len(Params) THEN Params[k + 1] ELSE "clone"

\* args.x || await input({...}): the flag when it is truthy.
UseFlag(k) ==
  LET p == Params[k] IN
  /\ pc = p
  /\ Truthy(args[p].val)
  /\ params' = [params EXCEPT ![p] = args[p].val]
  /\ pc' = AfterParam(k)
  /\ UNCHANGED <<args, prompted, files, trace, warns, licenseText, outcome>>
  /\ harnessIdle

\* args.x || await input({...}): the prompt, answered by typing typed, and
\* asked again when the validator rejects the answer.
Prompt(k, typed) ==
  LET p == Params[k]
      answer == Answer(typed, Default(p, params))
  IN
  /\ pc = p
  /\ ~Truthy(args[p].val)
  /\ IF Validate(p, answer)
     THEN params' = [params EXCEPT ![p] = answer] /\ pc' = AfterParam(k)
     ELSE UNCHANGED params /\ pc' = pc
  /\ prompted' = prompted \cup {p}
  /\ UNCHANGED <<args, files, trace, warns, licenseText, outcome>>
  /\ harnessIdle

Ask(k) == \E typed \in Typed(Params[k]) : Prompt(k, typed)

(***************************************************************************)
(* exec (lines 109-112): the promise resolves when the subprocess closes,  *)
(* and the exit code it closes with is not looked at.                      *)
(***************************************************************************)
\* An exec that rejects when the subprocess fails.
ExecRejectsOnFailure(code) == code = 0
ExecResolves(code) == TRUE
AfterExec(code, next) == IF ExecResolves(code) THEN next ELSE "aborted"

(***************************************************************************)
(* Repository acquisition (run, lines 143-160).                            *)
(***************************************************************************)
\* git clone <template> <packageName>: fails when the path is taken or the
\* network is down, and then creates nothing.
Clone ==
  /\ pc = "clone"
  /\ \E net \in {"up", "down"}, tpl \in Templates :
       LET ok == net = "up" /\ files = NoDirectory
           code == IF ok THEN 0 ELSE 128
       IN  /\ files' = IF ok THEN tpl ELSE files
           /\ trace' = Append(trace, Cmd("git clone", params["packageName"], code))
           /\ pc' = AfterExec(code, "rmGit")
  /\ UNCHANGED <<args, params, prompted, warns, licenseText, outcome>>
  /\ harnessIdle

\* rm -rf <packageName>/.git
RemoveGit ==
  /\ pc = "rmGit"
  /\ files' = Remove(files, ".git")
  /\ trace' = Append(trace, Cmd("rm -rf", <<".git">>, 0))
  /\ pc' = AfterExec(0, "rmCI")
  /\ UNCHANGED <<args, params, prompted, warns, licenseText, outcome>>
  /\ harnessIdle

\* rm -rf <packageName>/.github
RemoveCI ==
  /\ pc = "rmCI"
  /\ files' = Remove(files, ".github")
  /\ trace' = Append(trace, Cmd("rm -rf", <<".github">>, 0))
  /\ pc' = AfterExec(0, "rmLock")
  /\ UNCHANGED <<args, params, prompted, warns, licenseText, outcome>>
  /\ harnessIdle

\* rm <file>: exits with 1 when there is no such file.
RmCode(fs, name) == IF Exists(fs, name) THEN 0 ELSE 1

\* rm <packageName>/package-lock.json
RemoveLock ==
  /\ pc = "rmLock"
  /\ files' = Remove(files, "package-lock.json")
  /\ trace' = Append(trace, Cmd("rm", <<"package-lock.json">>, RmCode(files, "package-lock.json")))
  /\ pc' = AfterExec(RmCode(files, "package-lock.json"), "package")
  /\ UNCHANGED <<args, params, prompted, warns, licenseText, outcome>>
  /\ harnessIdle

(***************************************************************************)
(* Template rewrite: readFile, replace, writeFile.  readFile rejects when  *)
(* the file does not exist and nothing in run() catches it.                *)
(***************************************************************************)
\* package.json (lines 162-172)
UpdatePackage ==
  /\ pc = "package"
  /\ IF Exists(files, "package.json")
     THEN /\ files' = Write(files, "package.json", ManifestRewrite(files["package.json"], params))
          /\ pc' = "index"
     ELSE UNCHANGED files /\ pc' = "aborted"
  /\ UNCHANGED <<args, params, prompted, trace, warns, licenseText, outcome>>
  /\ harnessIdle

\* index.html (lines 174-179)
UpdateIndex ==
  /\ pc = "index"
  /\ IF Exists(files, "index.html")
     THEN /\ files' = Write(files, "index.html", IndexRewrite(files["index.html"], params))
          /\ pc' = "home"
     ELSE UNCHANGED files /\ pc' = "aborted"
  /\ UNCHANGED <<args, params, prompted, trace, warns, licenseText, outcome>>
  /\ harnessIdle

\* src/pages/home.vue (lines 181-186)
UpdateHome ==
  /\ pc = "home"
  /\ IF Exists(files, "home.vue")
     THEN /\ files' = Write(files, "home.vue", HomeRewrite(files["home.vue"], params))
          /\ pc' = "readme"
     ELSE UNCHANGED files /\ pc' = "aborted"
  /\ UNCHANGED <<args, params, prompted, trace, warns, licenseText, outcome>>
  /\ harnessIdle

\* README.md (lines 188-203)
UpdateReadme ==
  /\ pc = "readme"
  /\ IF Exists(files, "README.md")
     THEN /\ files' = Write(files, "README.md", ReadmeRewrite(files["README.md"], params))
          /\ pc' = "fetchLicense"
     ELSE UNCHANGED files /\ pc' = "aborted"
  /\ UNCHANGED <<args, params, prompted, trace, warns, licenseText, outcome>>
  /\ harnessIdle

(***************************************************************************)
(* License resolution (run, lines 205-217).                                *)
(***************************************************************************)
\* await fetchLicense(license): throws on a status other than 200, on an
\* identifier the registry does not list, and when the detail document
\* cannot be fetched or decoded.
FetchLicense ==
  /\ pc = "fetchLicense"
  /\ \E reg \in Registries, doc \in DetailDocs :
       LET k == Find(reg.licenses, params["license"])
           thrown == CASE reg.status # 200 -> "status"
                       [] k = 0 -> "notfound"
                       [] ~doc.ok -> "detail"
                       [] OTHER -> "none"
       IN  IF thrown = "none"
           THEN licenseText' = doc.licenseText /\ pc' = "writeLicense" /\ UNCHANGED outcome
           ELSE outcome' = thrown /\ pc' = "catch" /\ UNCHANGED licenseText
  /\ UNCHANGED <<args, params, prompted, files, trace, warns>>
  /\ harnessIdle

\* await writeFile(licenseFile, licenseContents): may fail, leaving the file
\* as it was or cut short.
WriteLicense ==
  /\ pc = "writeLicense"
  /\ \/ /\ files' = Write(files, "LICENSE", LicenseContents(licenseText, params["author"]))
        /\ outcome' = "written"
        /\ pc' = "gitInit"
     \/ /\ files' \in {files, Write(files, "LICENSE", <<>>)}
        /\ outcome' = "write"
        /\ pc' = "catch"
  /\ UNCHANGED <<args, params, prompted, trace, warns, licenseText>>
  /\ harnessIdle

\* A catch block that warns and leaves the file alone.
CatchLicenseKeepsFile ==
  /\ pc = "catch"
  /\ warns' = Append(warns, "Skipping LICENSE creation")
  /\ pc' = "gitInit"
  /\ UNCHANGED <<args, params, prompted, files, trace, licenseText, outcome>>
  /\ harnessIdle

\* catch (e): console.warn and rm <packageName>/LICENSE
CatchLicense ==
  /\ pc = "catch"
  /\ warns' = Append(warns, "Skipping LICENSE creation")
  /\ files' = Remove(files, "LICENSE")
  /\ trace' = Append(trace, Cmd("rm", <<"LICENSE">>, RmCode(files, "LICENSE")))
  /\ pc' = AfterExec(RmCode(files, "LICENSE"), "gitInit")
  /\ UNCHANGED <<args, params, prompted, licenseText, outcome>>
  /\ harnessIdle

(***************************************************************************)
(* Repository finalization (run, lines 219-236).                           *)
(***************************************************************************)
\* git init, in the output directory
GitInit ==
  /\ pc = "gitInit"
  /\ files' = Write(files, ".git", <<>>)
  /\ trace' = Append(trace, Cmd("git init", <<>>, 0))
  /\ pc' = AfterExec(0, "remote")
  /\ UNCHANGED <<args, params, prompted, warns, licenseText, outcome>>
  /\ harnessIdle

\* A remote added whether or not there is a URL.
AddRemoteAlways ==
  /\ pc = "remote"
  /\ trace' = Append(trace, Cmd("git remote add origin", params["repoURL"], 0))
  /\ pc' = "npm"
  /\ UNCHANGED <<args, params, prompted, files, warns, licenseText, outcome>>
  /\ harnessIdle

\* if (repoURL) git remote add origin <repoURL>, else console.warn
AddRemote ==
  /\ pc = "remote"
  /\ IF Truthy(params["repoURL"])
     THEN /\ trace' = Append(trace, Cmd("git remote add origin", params["repoURL"], 0))
          /\ UNCHANGED warns
     ELSE /\ warns' = Append(warns, "Skipping adding git remote")
          /\ UNCHANGED trace
  /\ pc' = "npm"
  /\ UNCHANGED <<args, params, prompted, files, licenseText, outcome>>
  /\ harnessIdle

\* npm install, in the output directory
NpmInstall ==
  /\ pc = "npm"
  /\ files' = Write(Write(files, "node_modules", <<>>), "package-lock.json", <<>>)
  /\ trace' = Append(trace, Cmd("npm install", <<>>, 0))
  /\ pc' = AfterExec(0, "done")
  /\ UNCHANGED <<args, params, prompted, warns, licenseText, outcome>>
  /\ harnessIdle

Next ==
  \/ \E k \in 1..Len(Params) : UseFlag(k)
  \/ \E k \in 1..Len(Params) : Ask(k)
  \/ Clone
  \/ RemoveGit
  \/ RemoveCI
  \/ RemoveLock
  \/ UpdatePackage
  \/ UpdateIndex
  \/ UpdateHome
  \/ UpdateReadme
  \/ FetchLicense
  \/ WriteLicense
  \/ CatchLicense
  \/ GitInit
  \/ AddRemote
  \/ NpmInstall

Spec == Init /\ [][Next]_vars

(***************************************************************************)
(* Properties of a run.                                                    *)
(***************************************************************************)
Range(f) == {f[k] : k \in DOMAIN f}
CmdsOf(t) == [k \in 1..Len(t) |-> t[k].cmd]
Ran(cmd) == cmd \in Range(CmdsOf(trace))
\* The part of the trace from the first spawn of cmd on (empty if none).
From(cmd) ==
  LET at == {k \in 1..Len(trace) : trace[k].cmd = cmd}
  IN  IF at = {} THEN <<>> ELSE SubSeq(trace, Min(at), Len(trace))
ResolutionDone == pc \notin ParamNames
LicenseFailed == outcome \in {"status", "notfound", "detail", "write"}
RewrittenFiles == {"package.json", "index.html", "home.vue", "README.md"}

\* C1: when license resolution fails (registry status, unknown identifier,
\* detail document, write), the failure is caught, a warning is emitted, no
\* LICENSE file is left in the output directory once the catch block has
\* run, and the run goes on to git init, the remote and npm install instead
\* of aborting.
C1_LicenseFailureRecovered ==
  LicenseFailed =>
    /\ pc \in {"catch", "gitInit", "remote", "npm", "done"}
    /\ pc # "catch" =>
         /\ ~Exists(files, "LICENSE")
         /\ "Skipping LICENSE creation" \in Range(warns)
    /\ pc = "done" =>
         /\ Ran("git init")
         /\ trace[Len(trace)].cmd = "npm install"
         /\ Truthy(params["repoURL"]) => Ran("git remote add origin")
\* A failed resolution in a directory that held a LICENSE, run to its end.
C1_Witness ==
  /\ pc = "done"
  /\ outcome = "notfound"
  /\ Cmd("rm", <<"LICENSE">>, 0) \in Range(trace)

AllSupplied == \A p \in ParamNames : args[p].given /\ args[p].val # <<>>

\* C2 as stated: with all seven flags supplied no prompt is triggered and
\* the run ends after npm install, which is reached and completed.
C2_AsStated ==
  AllSupplied =>
    /\ prompted = {}
    /\ pc # "aborted"
    /\ pc = "done" => trace[Len(trace)].cmd = "npm install"
\* C2 amended: with all seven flags supplied no prompt is triggered; a run
\* that completes ends with npm install as its last subprocess, and the
\* run can otherwise only abort at a rewrite whose file is missing, before
\* license resolution and finalization, without npm install.
C2_NoPromptAndEnd ==
  AllSupplied =>
    /\ prompted = {}
    /\ pc = "done" =>
         /\ trace[Len(trace)].cmd = "npm install"
         /\ Cardinality({k \in 1..Len(trace) : trace[k].cmd = "npm install"}) = 1
    /\ pc = "aborted" =>
         /\ \E f \in RewrittenFiles : ~Exists(files, f)
         /\ ~Ran("git init") /\ ~Ran("npm install")
         /\ outcome = "none"
C2_Witness == AllSupplied /\ pc = "done" /\ trace[Len(trace)].cmd = "npm install"

\* C3 as stated: after resolution none of appName, packageName, description,
\* version and license is empty.
C3_AsStated ==
  ResolutionDone =>
    \A p \in {"appName", "packageName", "description", "version", "license"} :
      params[p] # <<>>
\* C3 amended: after resolution appName, version and license are not empty;
\* description, like author and the repository URL, may be empty, and
\* packageName is empty only when it was prompted for and its default, the
\* slug of the app name, is empty.
C3_NonEmptyParams ==
  ResolutionDone =>
    /\ \A p \in {"appName", "version", "license"} : params[p] # <<>>
    /\ params["packageName"] = <<>> =>
         /\ "packageName" \in prompted
         /\ Slugify(ToLowerCase(params["appName"])) = <<>>
    /\ \A p \in {"description", "author", "repoURL"} :
         params[p] = <<>> => p \in prompted
C3_Witness ==
  /\ ResolutionDone
  /\ params["description"] = <<>>
  /\ params["packageName"] = <<>>
  /\ {"appName", "version", "license"} \subseteq prompted

\* C8: finalization spawns git init first, then git remote add origin with
\* the repository URL exactly when that URL is not empty (a warning and no
\* subprocess otherwise), and npm install last.
C8_Finalization ==
  /\ pc \in {"remote", "npm", "done"} => Ran("git init")
  /\ Ran("git remote add origin") => Truthy(params["repoURL"])
  /\ ("Skipping adding git remote" \in Range(warns)) =>
       ~Truthy(params["repoURL"]) /\ ~Ran("git remote add origin")
  /\ pc = "done" =>
       From("git init") =
         IF Truthy(params["repoURL"])
         THEN <<Cmd("git init", <<>>, 0),
                Cmd("git remote add origin", params["repoURL"], 0),
                Cmd("npm install", <<>>, 0)>>
         ELSE <<Cmd("git init", <<>>, 0), Cmd("npm install", <<>>, 0)>>
  /\ pc = "done" /\ ~Truthy(params["repoURL"]) =>
       "Skipping adding git remote" \in Range(warns)
C8_Witness ==
  /\ pc = "done"
  /\ ~Truthy(params["repoURL"])
  /\ "Skipping adding git remote" \in Range(warns)
  /\ CmdsOf(From("git init")) = <<"git init", "npm install">>

\* C9: when license resolution succeeds, the LICENSE file written holds the
\* author and the current year and neither placeholder.
C9_LicenseFilled ==
  outcome = "written" =>
    /\ Includes(files["LICENSE"], params["author"])
    /\ Includes(files["LICENSE"], CurrentYear)
    /\ ~Includes(files["LICENSE"], <<"<year>">>)
    /\ ~Includes(files["LICENSE"], <<"<copyright holders>">>)

\* C10: whatever the exit codes of git clone and of the three removals, the
\* four of them are spawned, in this order, before anything else happens,
\* and what the directory holds is not rolled back.
C10_FireAndForget ==
  /\ pc = "aborted" => Len(trace) >= 4
  /\ (ResolutionDone /\ pc \notin {"clone", "rmGit", "rmCI", "rmLock"}) =>
       /\ Len(trace) >= 4
       /\ SubSeq(CmdsOf(trace), 1, 4) = <<"git clone", "rm -rf", "rm -rf", "rm">>
       /\ <<trace[2].arg, trace[3].arg, trace[4].arg>>
            = <<<<".git">>, <<".github">>, <<"package-lock.json">>>>
  /\ (pc = "package" /\ trace[1].code = 0) => RewrittenFiles \subseteq DOMAIN files
C10_Witness ==
  /\ pc = "package"
  /\ trace[1].code # 0
  /\ trace[4].code # 0

(***************************************************************************)
(* The version prompt on its own: every short answer typed at it.          *)
(***************************************************************************)
Strs(alphabet, n) == UNION {[1..k -> alphabet] : k \in 0..n}
Resolved ==
  [appName |-> <<"A">>, packageName |-> <<"a">>, author |-> <<"a">>,
   description |-> <<"d">>, version |-> <<"1", ".", "2", ".", "3">>,
   license |-> <<"MIT">>, repoURL |-> <<"u">>]
InitHarness(at) ==
  /\ pc = at
  /\ args = [p \in ParamNames |-> NoFlag]
  /\ prompted = {}
  /\ files = Template
  /\ trace = <<>>
  /\ warns = <<>>
  /\ licenseText = <<>>
  /\ outcome = "none"
  /\ out = <<>>
  /\ step = 0
InitVersion ==
  /\ InitHarness("version")
  /\ params = [Resolved EXCEPT !["version"] = <<>>, !["license"] = <<>>, !["repoURL"] = <<>>]
  /\ inp \in Strs({"1", ".", "v"}, MaxVerLen)
AskVersion == Prompt(5, inp)
SpecVersion == InitVersion /\ [][AskVersion]_vars

\* Three runs of digits separated by dots, and nothing else.
IsMajorMinorPatch(s) ==
  LET dots == {i \in 1..Len(s) : s[i] = "."} IN
  /\ Cardinality(dots) = 2
  /\ \A i \in (1..Len(s)) \ dots : s[i] \in Digits
  /\ 1 \notin dots /\ Len(s) \notin dots
  /\ \A i \in dots : i + 1 \notin dots

\* C4: the answer to the version prompt is accepted when it has the shape
\* MAJOR.MINOR.PATCH and is rejected, the prompt being asked again, when it
\* lacks it.
C4_ValidatorDecidesShape ==
  "version" \in prompted =>
    LET answer == Answer(inp, Default("version", params)) IN
    /\ IsMajorMinorPatch(answer) => pc = "license" /\ params["version"] = answer
    /\ ~IsMajorMinorPatch(answer) => pc = "version" /\ params["version"] = <<>>

(***************************************************************************)
(* The manifest rewrite on its own, applied twice to the same manifest.    *)
(***************************************************************************)
ManifestKeys == {"name", "description", "author", "url"}
ManifestEntries == {Entry(k, <<"o">>) \o <<",">> : k \in ManifestKeys}
RECURSIVE Flatten(_)
Flatten(ss) == IF ss = <<>> THEN <<>> ELSE Head(ss) \o Flatten(Tail(ss))
\* Manifests of at most MaxEntries entries, no key twice.
Manifests ==
  {<<"{">> \o Flatten(es) \o <<"}">> :
     es \in {e \in Strs(ManifestEntries, MaxEntries) :
               \A i, j \in 1..Len(e) : e[i] = e[j] => i = j}}
ManifestParams ==
  {[Resolved EXCEPT !["description"] = d, !["author"] = a, !["repoURL"] = u] :
     d \in {<<>>, <<"d">>, <<"s", Q, "h", Q>>, <<"$", "&">>},
     a \in {<<"a">>, <<"$", "$">>},
     u \in {<<>>, <<"u">>}}
InitManifest ==
  /\ InitHarness("package")
  /\ params = Resolved
  /\ inp \in [packageJson : Manifests, p : ManifestParams]
RewriteManifest ==
  /\ step < 2
  /\ out' = Append(out, ManifestRewrite(IF step = 0 THEN inp.packageJson ELSE out[step], inp.p))
  /\ step' = step + 1
  /\ UNCHANGED <<runVars, inp>>
SpecManifest == InitManifest /\ [][RewriteManifest]_vars

\* C5: the manifest rewrite is idempotent: applied twice with the same
\* parameters it yields the manifest it yields applied once.
C5_ManifestIdempotent == step = 2 => out[2] = out[1]

(***************************************************************************)
(* The README edits on their own, applied one after the other.             *)
(***************************************************************************)
AppNames == Strs({"A", " ", "$", "&", "1", "MIT"}, MaxNameLen) \ {<<>>}
ReadmeParams ==
  {[Resolved EXCEPT !["appName"] = n, !["description"] = d, !["repoURL"] = u,
                    !["license"] = l] :
     n \in AppNames, d \in {<<"d">>, <<"MIT", " ", "d">>}, u \in {<<>>, <<"u">>},
     l \in {<<"MIT">>, <<"I", "S", "C">>}}
InitReadme ==
  /\ InitHarness("readme")
  /\ params = Resolved
  /\ inp \in [readme : {ReadmeMd}, p : ReadmeParams]
EditReadme ==
  /\ step < 6
  /\ out' = Append(out, ReadmeEdit(step + 1, IF step = 0 THEN inp.readme ELSE out[step], inp.p))
  /\ step' = step + 1
  /\ UNCHANGED <<runVars, inp>>
SpecReadme == InitReadme /\ [][EditReadme]_vars

\* The text after the title and its underline.
AfterTitle(readme) == SubSeq(readme, 6, Len(readme))
\* C6: the title edit leaves the app name on the title line and beneath it
\* a run of = as long as the app name, the rest of the README untouched.
C6_TitleAndUnderline ==
  step >= 1 =>
    out[1] = inp.p["appName"] \o <<NL>> \o Repeat("=", StrLen(inp.p["appName"]))
               \o AfterTitle(inp.readme)

\* C7: the edits run in the order title, description, Installation, clone
\* URL, license, Usage, and the fifth of them puts the license identifier
\* in the place of the MIT of the License section, which closes the README,
\* whatever the earlier edits inserted.
C7_LicenseProse ==
  step >= 5 =>
    out[5] = SubSeq(out[4], 1, Len(out[4]) - 2) \o inp.p["license"] \o <<NL>>

====
